---- MODULE Spec2Model ----
(***************************************************************************)
(* AgentDock: agent spending governance.                                   *)
(*                                                                         *)
(* The model covers the Cloud Functions REST API (functions/src/           *)
(* approvalApi.ts), the policy engine (functions/src/policyEngine.ts),     *)
(* the Helius webhook (functions/src/webhookHandler.ts) and the part of    *)
(* the mobile client that writes to the same Firestore collections         *)
(* (src/services/firebase.ts with its callers in ApprovalScreen,           *)
(* ApprovalCard, SettingsScreen and PolicyEditor).                         *)
(*                                                                         *)
(* Time is counted in minutes.  Amounts are integers in one fixed unit     *)
(* (0.1 SOL), so the default policy 1.0 / 0.5 / 0.1 SOL reads 10 / 5 / 1.  *)
(* Arithmetic is exact; the rounding of IEEE doubles is not modelled.      *)
(***************************************************************************)
EXTENDS Integers, Sequences, FiniteSets, TLC

\* ───────────────────────── bounds of the model ─────────────────────────
MaxTime      == 3      \* the clock runs 0..MaxTime
MaxApprovals == 1      \* approval documents that can be created
MaxPolls     == 2      \* status polls that may be in flight at once
MaxTx        == 2      \* ledger records in an initial state of EvalSpec
MaxAmount    == 4      \* amounts the evaluator is asked about: 0..MaxAmount
MaxBatch     == 2      \* events in one webhook payload
MaxLedger    == 2      \* records the ledger holds before ingestion stops
MaxSerial    == 2      \* requests of one agent evaluated one after another

\* ───────────────────────── program constants ───────────────────────────
DefaultDailyLimitSol        == 10   \* 1.0 SOL
DefaultPerTxLimitSol        == 5    \* 0.5 SOL
DefaultRequireApprovalAbove == 1    \* 0.1 SOL
DefaultExpiresInMinutes     == 15
MinutesPerDay               == 1440
LamportsPerUnit             == 100000000   \* lamports / 1e9 is SOL; the unit is 0.1 SOL

\* ───────────────────────── value domains ───────────────────────────────
AgentSeq    == <<"a1", "a2">>      \* the order in which ids are handed out
AgentIds    == { AgentSeq[k] : k \in DOMAIN AgentSeq }
OwnerIds    == {"u1"}
Wallets     == {"w1", "w2"}
Programs    == {"p1", "p2"}
ApprovalIds == 1..MaxApprovals
Terminal    == {"approved", "denied", "expired"}

\* optional values (a field or argument that may be undefined)
None        == <<>>
Some(x)     == <<x>>
NoDoc       == [exists |-> FALSE]   \* a document that does not exist
NoAgent     == "none"

\* ids of the documents of the "policies" collection: the one registration
\* creates under a fresh auto id, and the one the client writes under the
\* agent's id
PolicyDocIds == {"auto", "byAgentId"} \X AgentIds

VARIABLES
  now,              \* wall clock
  agents,           \* collection "agents":    AgentIds -> doc | NoDoc
  users,            \* collection "users":     OwnerIds -> doc
  policies,         \* collection "policies":  PolicyDocIds -> doc | NoDoc
  policyOrder,      \* per agent, which policy document id sorts first
  approvals,        \* collection "approvals": ApprovalIds -> doc | NoDoc
  transactions,     \* collection "transactions": sequence of docs
  polls,            \* status polls between their read and their write
  pendingApprovals, \* client store: ApprovalIds -> local status | "absent"
  timeLeft,         \* ApprovalCard state per listed approval
  pushCalls,        \* approvals for which sendPushToOwner was invoked
  res,              \* the response of the last finished handler
  polledExpired,    \* approvals some poll has answered "expired"
  webhook           \* the last ingestion call: what it built and attempted

vars == <<now, agents, users, policies, policyOrder, approvals, transactions,
          polls, pendingApprovals, timeLeft, pushCalls, res, polledExpired,
          webhook>>

\* ───────────────────────── helpers ─────────────────────────────────────
\* no ingestion call has run yet
NoWebhook == [ran |-> FALSE]

hashApiKey(key) == <<"sha256", key>>

\* the plaintext key registration hands to agent a
ApiKeyOf(a) == <<"key", a>>

NoRes == [op |-> "none", code |-> 0, agentId |-> NoAgent, approvalId |-> 0,
          status |-> "none", autoApproved |-> FALSE, reason |-> "none",
          respondedAt |-> None, policy |-> NoDoc, processed |-> 0]

\* res.status(code).json({error}) of handler op
ErrorRes(op, code) == [NoRes EXCEPT !.op = op, !.code = code]

\* ───────────────────────── policy engine ───────────────────────────────
\* loadPolicy: query agentId == a, isActive == true, limit(1).  Firestore
\* returns the matching documents in document-id order; policyOrder[a]
\* records which of the two candidate ids sorts first.
ActivePolicyDocs(a) ==
  { d \in PolicyDocIds : /\ policies[d] # NoDoc
                         /\ policies[d].agentId = a
                         /\ policies[d].isActive }

loadPolicy(a) ==
  LET act == ActivePolicyDocs(a) IN
  IF act = {} THEN NoDoc
  ELSE IF Cardinality(act) = 1 THEN policies[CHOOSE d \in act : TRUE]
  ELSE policies[<<policyOrder[a], a>>]

startOfDay(t) == t - (t % MinutesPerDay)

\* getDailySpending: sum of solAmount + fee over the agent's successful
\* transactions of the current UTC day
RECURSIVE SpendOf(_, _, _)
SpendOf(txs, a, since) ==
  IF txs = <<>> THEN 0
  ELSE LET d == Head(txs) IN
       (IF d.agentId = a /\ d.status = "success" /\ d.timestamp >= since
        THEN d.solAmount + d.fee ELSE 0) + SpendOf(Tail(txs), a, since)

\* getDailySpending with the day's first instant left out (> for >=)
getDailySpending_afterDayStart(a) ==
  SpendOf(transactions, a, startOfDay(now) + 1)

getDailySpending(a) == SpendOf(transactions, a, startOfDay(now))

\* JS truthiness of an optional string: undefined and "" are falsy
Truthy(opt) == opt # None /\ opt[1] # ""

\* evaluateTransaction with the fail-safe branch turned around: an agent
\* without an active policy is waved through
evaluateTransaction_failOpen(a, txAmount, programId) ==
  LET policy == loadPolicy(a) IN
  IF policy = NoDoc
    THEN [autoApproved |-> TRUE, reason |-> "ok"]
  ELSE IF txAmount > policy.perTxLimitSol
    THEN [autoApproved |-> FALSE, reason |-> "per_tx"]
  ELSE IF getDailySpending(a) + txAmount > policy.dailyLimitSol
    THEN [autoApproved |-> FALSE, reason |-> "daily"]
  ELSE IF /\ Truthy(programId)
          /\ policy.allowlistedPrograms # {}
          /\ programId[1] \notin policy.allowlistedPrograms
    THEN [autoApproved |-> FALSE, reason |-> "allowlist"]
  ELSE IF txAmount > policy.requireApprovalAbove
    THEN [autoApproved |-> FALSE, reason |-> "threshold"]
  ELSE [autoApproved |-> TRUE, reason |-> "ok"]

\* evaluateTransaction with the threshold check moved in front of the limits
evaluateTransaction_thresholdFirst(a, txAmount, programId) ==
  LET policy == loadPolicy(a) IN
  IF policy = NoDoc
    THEN [autoApproved |-> FALSE, reason |-> "no_policy"]
  ELSE IF txAmount > policy.requireApprovalAbove
    THEN [autoApproved |-> FALSE, reason |-> "threshold"]
  ELSE IF txAmount > policy.perTxLimitSol
    THEN [autoApproved |-> FALSE, reason |-> "per_tx"]
  ELSE IF getDailySpending(a) + txAmount > policy.dailyLimitSol
    THEN [autoApproved |-> FALSE, reason |-> "daily"]
  ELSE IF /\ Truthy(programId)
          /\ policy.allowlistedPrograms # {}
          /\ programId[1] \notin policy.allowlistedPrograms
    THEN [autoApproved |-> FALSE, reason |-> "allowlist"]
  ELSE [autoApproved |-> TRUE, reason |-> "ok"]

\* evaluateTransaction with >= in place of > in the daily check: a
\* projected total exactly at the limit is escalated
evaluateTransaction_dailyAtLimit(a, txAmount, programId) ==
  LET policy == loadPolicy(a) IN
  IF policy = NoDoc
    THEN [autoApproved |-> FALSE, reason |-> "no_policy"]
  ELSE IF txAmount > policy.perTxLimitSol
    THEN [autoApproved |-> FALSE, reason |-> "per_tx"]
  ELSE IF getDailySpending(a) + txAmount >= policy.dailyLimitSol
    THEN [autoApproved |-> FALSE, reason |-> "daily"]
  ELSE IF /\ Truthy(programId)
          /\ policy.allowlistedPrograms # {}
          /\ programId[1] \notin policy.allowlistedPrograms
    THEN [autoApproved |-> FALSE, reason |-> "allowlist"]
  ELSE IF txAmount > policy.requireApprovalAbove
    THEN [autoApproved |-> FALSE, reason |-> "threshold"]
  ELSE [autoApproved |-> TRUE, reason |-> "ok"]

evaluateTransaction(a, txAmount, programId) ==
  LET policy == loadPolicy(a) IN
  IF policy = NoDoc
    THEN [autoApproved |-> FALSE, reason |-> "no_policy"]
  ELSE IF txAmount > policy.perTxLimitSol
    THEN [autoApproved |-> FALSE, reason |-> "per_tx"]
  ELSE IF getDailySpending(a) + txAmount > policy.dailyLimitSol
    THEN [autoApproved |-> FALSE, reason |-> "daily"]
  ELSE IF /\ Truthy(programId)
          /\ policy.allowlistedPrograms # {}
          /\ programId[1] \notin policy.allowlistedPrograms
    THEN [autoApproved |-> FALSE, reason |-> "allowlist"]
  ELSE IF txAmount > policy.requireApprovalAbove
    THEN [autoApproved |-> FALSE, reason |-> "threshold"]
  ELSE [autoApproved |-> TRUE, reason |-> "ok"]

\* ───────────────────────── authentication ──────────────────────────────
\* Authorization headers the model sends: none, a key no agent has, and
\* the keys handed out by registration
AuthHeaders == {None, Some(<<"key", "bogus">>)} \cup {Some(ApiKeyOf(a)) : a \in AgentIds}

\* authenticateAgent: 401 without a bearer key, 403 when no agent document
\* carries the key's hash, else the id of the agent found
authenticateAgent(auth) ==
  IF auth = None THEN [code |-> 401, agentId |-> NoAgent]
  ELSE LET found == { a \in AgentIds : /\ agents[a] # NoDoc
                                        /\ agents[a].apiKeyHash = hashApiKey(auth[1]) }
       IN IF found = {} THEN [code |-> 403, agentId |-> NoAgent]
          ELSE [code |-> 200, agentId |-> CHOOSE a \in found : TRUE]

\* ───────────────────────── push notifications ──────────────────────────
\* what the store and the messaging service can do during one handler run:
\* nothing goes wrong, a storage call of the handler throws (the policy
\* reads, the write of the approval), or inside sendPushToOwner the read of
\* the user throws, the send fails, the send reports a stale token, or the
\* cleanup of the stale token throws
Outcomes == {"ok", "evaluate_throws", "set_throws", "get_throws", "send_error",
             "stale_token", "stale_token_cleanup_throws"}

\* sendPushToOwner: the users collection after the call, and whether the
\* call threw.  The first read is outside the try block; the token cleanup
\* runs inside the catch block, so a failure of either propagates.
sendPushToOwner(ownerId, outcome) ==
  IF outcome = "get_throws" THEN [threw |-> TRUE, users |-> users]
  ELSE IF ownerId \notin DOMAIN users THEN [threw |-> FALSE, users |-> users]
  ELSE IF ~users[ownerId].fcmToken \/ ~users[ownerId].notificationsEnabled
    THEN [threw |-> FALSE, users |-> users]
  ELSE IF outcome = "stale_token"
    THEN [threw |-> FALSE,
          users |-> [users EXCEPT ![ownerId].fcmToken = FALSE]]
  ELSE IF outcome = "stale_token_cleanup_throws"
    THEN [threw |-> TRUE, users |-> users]
  ELSE [threw |-> FALSE, users |-> users]

\* ───────────────────────── POST /api/agents/register ───────────────────
\* request bodies: name present or not, walletAddress and ownerId optional
\* the wallet strings a caller may send, each standing for a string of the
\* stated length; "zero40" holds a character outside the base58 alphabet
WalletInputs == Wallets \cup {"short31", "long45", "zero40"}
walletLength(w) ==
  CASE w = "w1" -> 32 [] w = "w2" -> 44 [] w = "short31" -> 31
    [] w = "long45" -> 45 [] w = "zero40" -> 40
isBase58(w) == w # "zero40"

RegisterBodies ==
  [name : BOOLEAN,
   walletAddress : {None} \cup {Some(w) : w \in WalletInputs},
   ownerId : {None, Some("ghost")} \cup {Some(u) : u \in OwnerIds}]

\* the wallet test without its length bounds
isValidSolanaAddress_anyLength(w) == isBase58(w)

\* /^[1-9A-HJ-NP-Za-km-z]{32,44}$/
isValidSolanaAddress(w) ==
  isBase58(w) /\ walletLength(w) >= 32 /\ walletLength(w) <= 44

\* getDb().collection("agents").doc(): a fresh document id
FreshAgentIds == { a \in AgentIds : agents[a] = NoDoc }

defaultPolicy(a) ==
  [exists |-> TRUE, agentId |-> a,
   dailyLimitSol |-> DefaultDailyLimitSol,
   perTxLimitSol |-> DefaultPerTxLimitSol,
   allowlistedPrograms |-> {},
   requireApprovalAbove |-> DefaultRequireApprovalAbove,
   isActive |-> TRUE]

\* Register writing the agent document on its own before the rest: a
\* failure after the first write leaves the agent without policy
Register_agentWrittenFirst(body, commitOk, order) ==
  /\ UNCHANGED <<webhook, now, approvals, transactions, polls, pendingApprovals,
                 timeLeft, pushCalls, polledExpired>>
  /\ IF ~body.name \/ body.walletAddress = None \/ body.ownerId = None
       THEN /\ res' = ErrorRes("register", 400)
            /\ UNCHANGED <<agents, users, policies, policyOrder>>
     ELSE IF ~isValidSolanaAddress(body.walletAddress[1])
       THEN /\ res' = ErrorRes("register", 400)
            /\ UNCHANGED <<agents, users, policies, policyOrder>>
     ELSE IF body.ownerId[1] \notin DOMAIN users
       THEN /\ res' = ErrorRes("register", 404)
            /\ UNCHANGED <<agents, users, policies, policyOrder>>
     ELSE /\ FreshAgentIds # {}
          /\ LET k == CHOOSE x \in DOMAIN AgentSeq :
                        /\ AgentSeq[x] \in FreshAgentIds
                        /\ \A y \in 1..(x - 1) : AgentSeq[y] \notin FreshAgentIds
                 a == AgentSeq[k]
                 u == body.ownerId[1]
             IN /\ agents' = [agents EXCEPT ![a] =
                     [exists |-> TRUE, walletAddress |-> body.walletAddress[1],
                      status |-> "active", apiKeyHash |-> hashApiKey(ApiKeyOf(a)),
                      ownerId |-> u, lastSeenAt |-> None]]
                /\ IF commitOk
                     THEN /\ policies' = [policies EXCEPT ![<<"auto", a>>] = defaultPolicy(a)]
                          /\ policyOrder' = [policyOrder EXCEPT ![a] = order]
                          /\ users' = [users EXCEPT ![u].agentIds = @ \cup {a}]
                          /\ res' = [ErrorRes("register", 201) EXCEPT !.agentId = a]
                     ELSE /\ res' = ErrorRes("register", 500)
                          /\ UNCHANGED <<users, policies, policyOrder>>

\* agentData keeps lastSeenAt = createdAt = the registration instant, which
\* the model does not hold: lastSeenAt is None until an ingestion refreshes
\* it
Register(body, commitOk, order) ==
  /\ UNCHANGED <<webhook, now, approvals, transactions, polls, pendingApprovals,
                 timeLeft, pushCalls, polledExpired>>
  /\ IF ~body.name \/ body.walletAddress = None \/ body.ownerId = None
       THEN /\ res' = ErrorRes("register", 400)
            /\ UNCHANGED <<agents, users, policies, policyOrder>>
     ELSE IF ~isValidSolanaAddress(body.walletAddress[1])
       THEN /\ res' = ErrorRes("register", 400)
            /\ UNCHANGED <<agents, users, policies, policyOrder>>
     ELSE IF body.ownerId[1] \notin DOMAIN users
       THEN /\ res' = ErrorRes("register", 404)
            /\ UNCHANGED <<agents, users, policies, policyOrder>>
     ELSE /\ FreshAgentIds # {}
          /\ LET k == CHOOSE x \in DOMAIN AgentSeq :
                        /\ AgentSeq[x] \in FreshAgentIds
                        /\ \A y \in 1..(x - 1) : AgentSeq[y] \notin FreshAgentIds
                 a == AgentSeq[k]
                 u == body.ownerId[1]
             IN IF commitOk
                  THEN /\ agents' = [agents EXCEPT ![a] =
                            [exists |-> TRUE, walletAddress |-> body.walletAddress[1],
                             status |-> "active", apiKeyHash |-> hashApiKey(ApiKeyOf(a)),
                             ownerId |-> u, lastSeenAt |-> None]]
                       /\ policies' = [policies EXCEPT ![<<"auto", a>>] = defaultPolicy(a)]
                       /\ policyOrder' = [policyOrder EXCEPT ![a] = order]
                       /\ users' = [users EXCEPT ![u].agentIds = @ \cup {a}]
                       /\ res' = [ErrorRes("register", 201) EXCEPT !.agentId = a]
                  ELSE /\ res' = ErrorRes("register", 500)
                       /\ UNCHANGED <<agents, users, policies, policyOrder>>

\* ───────────────────────── owner's policy save ─────────────────────────
\* what the owner can type into the PolicyEditor form
EditorLimits == {0, 2, 3}
PolicyForms ==
  [dailyLimit : EditorLimits, perTxLimit : EditorLimits,
   approvalThreshold : {0, 2}, isActive : BOOLEAN,
   programs : {{}, {"p1"}}]

\* PolicyEditor.handleSave: the checks before onSave is called
handleSaveAccepts(form) ==
  /\ form.dailyLimit > 0
  /\ form.perTxLimit > 0
  /\ form.approvalThreshold > 0
  /\ ~(form.perTxLimit > form.dailyLimit)

\* firebase.setPolicy: setDoc(doc(db, 'policies', policy.agentId), policy)
setPolicy(a, form) ==
  [policies EXCEPT ![<<"byAgentId", a>>] =
     [exists |-> TRUE, agentId |-> a,
      dailyLimitSol |-> form.dailyLimit,
      perTxLimitSol |-> form.perTxLimit,
      allowlistedPrograms |-> form.programs,
      requireApprovalAbove |-> form.approvalThreshold,
      isActive |-> form.isActive]]

\* SettingsScreen.handleSavePolicy for an agent of the signed-in owner
SavePolicy(u, a, form) ==
  /\ a \in users[u].agentIds
  /\ handleSaveAccepts(form)
  /\ policies' = setPolicy(a, form)
  /\ UNCHANGED <<webhook, now, agents, users, policyOrder, approvals, transactions, polls,
                 pendingApprovals, timeLeft, pushCalls, res, polledExpired>>

\* ───────────────────────── POST /api/approvals/request ─────────────────
\* request bodies: description and txType present or not, the rest
\* optional; costs, targets and TTLs are drawn from the given sets
ApprovalRequestBodies(costs, targets, ttls) ==
  [description : {TRUE}, txType : {TRUE},
   estimatedSolCost : {Some(c) : c \in costs},
   targetProgram : targets, expiresInMinutes : ttls]

\* bodies the validation rejects: a required field missing, a negative cost
InvalidRequestBodies ==
  { [description |-> d, txType |-> t, estimatedSolCost |-> c,
     targetProgram |-> None, expiresInMinutes |-> None] :
       d \in BOOLEAN, t \in BOOLEAN, c \in {None, Some(-1), Some(1)} }
  \ { [description |-> TRUE, txType |-> TRUE, estimatedSolCost |-> Some(1),
       targetProgram |-> None, expiresInMinutes |-> None] }

\* getDb().collection("approvals").doc(): a fresh document id
FreshApprovalIds == { i \in DOMAIN approvals : approvals[i] = NoDoc }

\* approvalData with respondedAt taken from the expiry time
approvalData_respondedAtExpiry(a, body, evaluation) ==
  LET ttl == IF body.expiresInMinutes = None THEN DefaultExpiresInMinutes
             ELSE body.expiresInMinutes[1]
  IN [exists |-> TRUE, agentId |-> a,
      status |-> IF evaluation.autoApproved THEN "approved" ELSE "pending",
      createdAt |-> now,
      expiresAt |-> now + ttl,
      respondedAt |-> IF evaluation.autoApproved THEN Some(now + ttl) ELSE None,
      estimatedSolCost |-> body.estimatedSolCost[1],
      targetProgram |-> IF Truthy(body.targetProgram) THEN body.targetProgram
                        ELSE None,
      policyEvaluation |-> evaluation.reason]

\* the document the handler builds (approvalData)
approvalData(a, body, evaluation) ==
  LET ttl == IF body.expiresInMinutes = None THEN DefaultExpiresInMinutes
             ELSE body.expiresInMinutes[1]
  IN [exists |-> TRUE, agentId |-> a,
      status |-> IF evaluation.autoApproved THEN "approved" ELSE "pending",
      createdAt |-> now,
      expiresAt |-> now + ttl,
      respondedAt |-> IF evaluation.autoApproved THEN Some(now) ELSE None,
      estimatedSolCost |-> body.estimatedSolCost[1],
      targetProgram |-> IF Truthy(body.targetProgram) THEN body.targetProgram
                        ELSE None,
      policyEvaluation |-> evaluation.reason]

\* the owner is alerted whatever the verdict
alertsOwner_always(evaluation) == TRUE

\* if (!evaluation.autoApproved) sendPushToOwner(...)
alertsOwner(evaluation) == ~evaluation.autoApproved

\* res.locals.agent: the id and the data of the agent document the key
\* belongs to
localsAgent(a) == [id |-> a, status |-> agents[a].status]

\* an evaluation that lets only active agents through
requestVerdict_activeOnly(agent, body) ==
  IF agent.status # "active"
    THEN [autoApproved |-> FALSE, reason |-> "no_policy"]
    ELSE evaluateTransaction(agent.id, body.estimatedSolCost[1],
                             body.targetProgram)

\* evaluateTransaction(agent.id, body.estimatedSolCost, body.targetProgram)
requestVerdict(agent, body) ==
  evaluateTransaction(agent.id, body.estimatedSolCost[1], body.targetProgram)

RequestApproval(auth, body, outcome) ==
  LET who == authenticateAgent(auth) IN
  /\ UNCHANGED <<webhook, now, agents, policies, policyOrder, transactions, polls,
                 pendingApprovals, timeLeft, polledExpired>>
  /\ IF who.code # 200
       THEN /\ res' = ErrorRes("request", who.code)
            /\ UNCHANGED <<approvals, users, pushCalls>>
     ELSE IF ~body.description \/ ~body.txType \/ body.estimatedSolCost = None
       THEN /\ res' = ErrorRes("request", 400)
            /\ UNCHANGED <<approvals, users, pushCalls>>
     ELSE IF body.estimatedSolCost[1] < 0
       THEN /\ res' = ErrorRes("request", 400)
            /\ UNCHANGED <<approvals, users, pushCalls>>
     ELSE IF outcome \in {"evaluate_throws", "set_throws"}
       THEN /\ res' = ErrorRes("request", 500)
            /\ UNCHANGED <<approvals, users, pushCalls>>
     ELSE /\ FreshApprovalIds # {}
          /\ LET a == who.agentId
                 i == CHOOSE x \in FreshApprovalIds :
                        \A y \in FreshApprovalIds : x <= y
                 evaluation == requestVerdict(localsAgent(a), body)
                 data == approvalData(a, body, evaluation)
                 push == sendPushToOwner(agents[a].ownerId, outcome)
             IN /\ approvals' = [approvals EXCEPT ![i] = data]
                /\ IF ~alertsOwner(evaluation)
                     THEN /\ UNCHANGED <<users, pushCalls>>
                          /\ res' = [ErrorRes("request", 201) EXCEPT
                                       !.agentId = a, !.approvalId = i,
                                       !.status = data.status,
                                       !.autoApproved = evaluation.autoApproved,
                                       !.reason = evaluation.reason]
                     ELSE /\ pushCalls' = pushCalls \cup {i}
                          /\ users' = push.users
                          /\ res' = IF push.threw
                                      THEN ErrorRes("request", 500)
                                      ELSE [ErrorRes("request", 201) EXCEPT
                                              !.agentId = a, !.approvalId = i,
                                              !.status = data.status,
                                              !.autoApproved = evaluation.autoApproved,
                                              !.reason = evaluation.reason]

\* ───────────────────────── GET /api/approvals/:id/status ───────────────
NoPoll == [busy |-> FALSE]
PollSlots == 1..MaxPolls

\* ids a caller may ask for: the documents that can exist, and one that
\* never does
PollIds == ApprovalIds \cup {0}

\* the gate without the ownership check
pollGate_noOwnerCheck(store, agentId, id) ==
  IF id \notin ApprovalIds \/ store[id] = NoDoc THEN 404 ELSE 200

\* the answer code the read of the document and the ownership check lead
\* to, on the approvals collection `store`: 404 when the document does not
\* exist, then 403 when it is another agent's, else the handler goes on
pollGate(store, agentId, id) ==
  IF id \notin ApprovalIds \/ store[id] = NoDoc THEN 404
  ELSE IF store[id].agentId # agentId THEN 403
  ELSE 200

\* the handler up to and including the read of the approval document with
\* the ownership check; a poll that passes is left in flight with the
\* snapshot it read
PollRead(slot, auth, id) ==
  LET who == authenticateAgent(auth) IN
  /\ polls[slot] = NoPoll
  /\ \A s \in PollSlots : s < slot => polls[s] # NoPoll
  /\ UNCHANGED <<webhook, now, agents, users, policies, policyOrder, approvals,
                 transactions, pendingApprovals, timeLeft, pushCalls,
                 polledExpired>>
  /\ IF who.code # 200
       THEN /\ res' = ErrorRes("poll", who.code)
            /\ UNCHANGED polls
     ELSE IF pollGate(approvals, who.agentId, id) # 200
       THEN /\ res' = ErrorRes("poll", pollGate(approvals, who.agentId, id))
            /\ UNCHANGED polls
     ELSE /\ polls' = [polls EXCEPT ![slot] =
                         [busy |-> TRUE, agentId |-> who.agentId,
                          approvalId |-> id, data |-> approvals[id],
                          afterExpired |-> id \in polledExpired]]
          /\ UNCHANGED res

\* the expiry test with <= : a request is expired at its expiry instant
isOverdue_atExpiry(data) == data.status = "pending" /\ data.expiresAt <= now

\* the expiry test without the status guard
isOverdue_anyStatus(data) == data.expiresAt < now

\* the lazy expiry test on the snapshot: data.status === "pending" &&
\* new Date(data.expiresAt) < new Date()
isOverdue(data) == data.status = "pending" /\ data.expiresAt < now

\* the rest of the handler with an update that applies only while the
\* stored status is still pending, and the snapshot's status answered
\* when it does not apply
PollFinish_updateIfStillPending(slot) ==
  /\ polls[slot] # NoPoll
  /\ LET p == polls[slot]
         expires == isOverdue(p.data)
                      /\ approvals[p.approvalId].status = "pending"
         answer == IF expires
                     THEN [ErrorRes("poll", 200) EXCEPT
                             !.agentId = p.agentId, !.approvalId = p.approvalId,
                             !.status = "expired"]
                     ELSE [ErrorRes("poll", 200) EXCEPT
                             !.agentId = p.agentId, !.approvalId = p.approvalId,
                             !.status = p.data.status,
                             !.respondedAt = p.data.respondedAt]
     IN /\ approvals' = IF expires
                          THEN [approvals EXCEPT ![p.approvalId].status = "expired"]
                          ELSE approvals
        /\ res' = answer
        /\ polledExpired' = IF answer.status = "expired"
                              THEN polledExpired \cup {p.approvalId}
                              ELSE polledExpired
        /\ polls' = [polls EXCEPT ![slot] = NoPoll]
  /\ UNCHANGED <<webhook, now, agents, users, policies, policyOrder, transactions,
                 pendingApprovals, timeLeft, pushCalls>>

\* the rest of the handler: the expiry check against the clock, the update
\* and the answer
PollFinish(slot) ==
  /\ polls[slot] # NoPoll
  /\ LET p == polls[slot]
         answer == IF isOverdue(p.data)
                     THEN [ErrorRes("poll", 200) EXCEPT
                             !.agentId = p.agentId, !.approvalId = p.approvalId,
                             !.status = "expired"]
                     ELSE [ErrorRes("poll", 200) EXCEPT
                             !.agentId = p.agentId, !.approvalId = p.approvalId,
                             !.status = p.data.status,
                             !.respondedAt = p.data.respondedAt]
     IN /\ approvals' = IF isOverdue(p.data)
                          THEN [approvals EXCEPT ![p.approvalId].status = "expired"]
                          ELSE approvals
        /\ res' = answer
        /\ polledExpired' = IF answer.status = "expired"
                              THEN polledExpired \cup {p.approvalId}
                              ELSE polledExpired
        /\ polls' = [polls EXCEPT ![slot] = NoPoll]
  /\ UNCHANGED <<webhook, now, agents, users, policies, policyOrder, transactions,
                 pendingApprovals, timeLeft, pushCalls>>

\* ───────────────────────── mobile client: approvals ────────────────────
\* subscribeToPendingApprovals / getPendingApprovals: the approvals of the
\* owner's agents whose stored status is pending
pendingQuery(u) ==
  { i \in ApprovalIds : /\ approvals[i] # NoDoc
                        /\ approvals[i].agentId \in users[u].agentIds
                        /\ approvals[i].status = "pending" }

\* ApprovalCard.updateTimer: diff = expires - now; "Expired" when diff <= 0
updateTimer(i) == IF approvals[i].expiresAt - now <= 0 THEN "Expired" ELSE "running"

\* the query result reaches the store (setPendingApprovals); a card is
\* mounted for every listed approval and runs updateTimer at once
OnPendingSnapshot(u) ==
  /\ pendingApprovals' = [i \in ApprovalIds |->
                            IF i \in pendingQuery(u) THEN "pending" ELSE "absent"]
  /\ pendingApprovals' # pendingApprovals
  /\ timeLeft' = [i \in ApprovalIds |->
                    IF i \notin pendingQuery(u) THEN ""
                    ELSE IF pendingApprovals[i] = "pending" THEN timeLeft[i]
                    ELSE updateTimer(i)]
  /\ UNCHANGED <<webhook, now, agents, users, policies, policyOrder, approvals,
                 transactions, polls, pushCalls, res, polledExpired>>

\* the one-second interval of a mounted card
TimerTick(i) ==
  /\ pendingApprovals[i] = "pending"
  /\ timeLeft' = [timeLeft EXCEPT ![i] = updateTimer(i)]
  /\ timeLeft' # timeLeft
  /\ UNCHANGED <<webhook, now, agents, users, policies, policyOrder, approvals,
                 transactions, polls, pendingApprovals, pushCalls, res,
                 polledExpired>>

\* firebase.respondToApproval: updateDoc(doc(db, 'approvals', id),
\* {status, respondedAt})
respondToApproval(i, status) ==
  [approvals EXCEPT ![i].status = status, ![i].respondedAt = Some(now)]

\* ApprovalScreen.handleApprove / handleDeny, reached from a card of the
\* display list (local status pending) whose buttons are not disabled
HandleRespond(i, status) ==
  /\ pendingApprovals[i] = "pending"
  /\ timeLeft[i] # "Expired"
  /\ approvals' = respondToApproval(i, status)
  /\ pendingApprovals' = [pendingApprovals EXCEPT ![i] = status]
  /\ timeLeft' = [timeLeft EXCEPT ![i] = ""]
  /\ UNCHANGED <<webhook, now, agents, users, policies, policyOrder, transactions,
                 polls, pushCalls, res, polledExpired>>

\* ───────────────────────── the clock ───────────────────────────────────
Tick ==
  /\ now < MaxTime
  /\ now' = now + 1
  /\ UNCHANGED <<webhook, agents, users, policies, policyOrder, approvals, transactions,
                 polls, pendingApprovals, timeLeft, pushCalls, res,
                 polledExpired>>

\* ───────────────────────── the system ──────────────────────────────────
Init ==
  /\ now = 0
  /\ agents = [a \in AgentIds |-> NoDoc]
  /\ users = [u \in OwnerIds |->
                [agentIds |-> {}, fcmToken |-> TRUE, notificationsEnabled |-> TRUE]]
  /\ policies = [d \in PolicyDocIds |-> NoDoc]
  /\ policyOrder = [a \in AgentIds |-> "auto"]
  /\ approvals = [i \in ApprovalIds |-> NoDoc]
  /\ transactions = <<>>
  /\ polls = [s \in PollSlots |-> NoPoll]
  /\ pendingApprovals = [i \in ApprovalIds |-> "absent"]
  /\ timeLeft = [i \in ApprovalIds |-> ""]
  /\ pushCalls = {}
  /\ res = NoRes
  /\ polledExpired = {}
  /\ webhook = NoWebhook

\* ───────────────────────── approval life cycle ────────────────────────
\* Spec: registration with the default policy, approval requests, status
\* polls, the owner's responses and the clock.
LifecycleRegisterBodies ==
  { b \in RegisterBodies : b.name /\ b.walletAddress = Some("w1")
                                  /\ b.ownerId = Some("u1") }
LifecycleAuthHeaders == { Some(ApiKeyOf(a)) : a \in AgentIds }
LifecycleOutcomes == {"ok"}
LifecycleRequestBodies ==
  ApprovalRequestBodies({1, 2}, {None}, {None, Some(1)})

Next ==
  \/ \E body \in LifecycleRegisterBodies :
          Register(body, TRUE, "auto")
  \/ \E auth \in LifecycleAuthHeaders, body \in LifecycleRequestBodies,
        outcome \in LifecycleOutcomes : RequestApproval(auth, body, outcome)
  \/ \E slot \in PollSlots, auth \in LifecycleAuthHeaders, id \in ApprovalIds :
          PollRead(slot, auth, id)
  \/ \E slot \in PollSlots : PollFinish(slot)
  \/ \E u \in OwnerIds : OnPendingSnapshot(u)
  \/ \E i \in ApprovalIds : TimerTick(i)
  \/ \E i \in ApprovalIds, status \in {"approved", "denied"} : HandleRespond(i, status)
  \/ Tick

Spec == Init /\ [][Next]_vars

\* ───────────────────────── GET /api/policies/:agentId ─────────────────
ReadPolicy(auth, requestedAgentId) ==
  LET who == authenticateAgent(auth) IN
  /\ res' = IF who.code # 200 THEN ErrorRes("policy", who.code)
            ELSE IF requestedAgentId # who.agentId THEN ErrorRes("policy", 403)
            ELSE IF loadPolicy(requestedAgentId) = NoDoc THEN ErrorRes("policy", 404)
            ELSE [ErrorRes("policy", 200) EXCEPT
                    !.agentId = who.agentId,
                    !.policy = loadPolicy(requestedAgentId)]
  /\ UNCHANGED <<webhook, now, agents, users, policies, policyOrder, approvals,
                 transactions, polls, pendingApprovals, timeLeft, pushCalls,
                 polledExpired>>

\* ───────────────────────── policies ────────────────────────────────────
\* PolicySpec: registration, the owner's policy save and the policy read.
PolicyRegisterBodies ==
  { b \in RegisterBodies :
      \/ b.name /\ b.walletAddress \in {Some(w) : w \in Wallets}
                /\ b.ownerId \in {Some("u1"), Some("ghost")}
      \/ ~b.name /\ b.walletAddress = Some("w1") /\ b.ownerId = Some("u1")
      \/ b.name /\ b.walletAddress = Some("zero40") /\ b.ownerId = Some("u1") }

NextPolicy ==
  \/ \E body \in PolicyRegisterBodies, commitOk \in BOOLEAN,
        order \in {"auto", "byAgentId"} : Register(body, commitOk, order)
  \/ \E u \in OwnerIds, a \in AgentIds, form \in PolicyForms : SavePolicy(u, a, form)
  \/ \E auth \in AuthHeaders, a \in AgentIds : ReadPolicy(auth, a)

PolicySpec == Init /\ [][NextPolicy]_vars

\* ───────────────────────── the evaluator on any store ──────────────────
\* EvalSpec: the policy documents and the ledger are drawn from bounded
\* sets (the store is schemaless: the engine must decide on whatever it
\* finds), then approval requests are evaluated against them.
EvalPolicyDocs(a) ==
  [exists : {TRUE}, agentId : {a}, dailyLimitSol : {3}, perTxLimitSol : {2, 4},
   allowlistedPrograms : {{}, {"p1"}}, requireApprovalAbove : {2, 4},
   isActive : BOOLEAN]

\* ledger entries: one that counts, one that counts with a fee, and one for
\* each reason not to count (failed, before today, another agent's)
EvalTx(a, status, timestamp, fee) ==
  [agentId |-> a, status |-> status, timestamp |-> timestamp,
   solAmount |-> 1, fee |-> fee]
EvalTxSeq ==
  << EvalTx("a1", "success", 0, 0), EvalTx("a1", "success", 0, 1),
     EvalTx("a1", "failed", 0, 0), EvalTx("a1", "success", -1, 0),
     EvalTx("a2", "success", 0, 0) >>
EvalTxDocs == { EvalTxSeq[k] : k \in DOMAIN EvalTxSeq }

RECURSIVE SeqsUpTo(_, _)
SeqsUpTo(S, n) ==
  IF n = 0 THEN {<<>>}
  ELSE LET shorter == SeqsUpTo(S, n - 1)
       IN shorter \cup { Append(q, x) : q \in shorter, x \in S }

\* the ledgers of up to n entries; the collection has no order, so each
\* ledger is listed once, in the order of EvalTxSeq
EvalLedgers(n) ==
  { [k \in DOMAIN q |-> EvalTxSeq[q[k]]] :
      q \in { r \in SeqsUpTo(DOMAIN EvalTxSeq, n) :
                \A k \in 1..(Len(r) - 1) : r[k] <= r[k + 1] } }

registeredAgent(a, w, u) ==
  [exists |-> TRUE, walletAddress |-> w, status |-> "active",
   apiKeyHash |-> hashApiKey(ApiKeyOf(a)), ownerId |-> u,
   lastSeenAt |-> None]

\* a1 has any combination of the two policy documents, a2 has none
InitEval ==
  /\ now = MaxTime
  /\ agents = [a \in AgentIds |->
                 registeredAgent(a, IF a = "a1" THEN "w1" ELSE "w2", "u1")]
  /\ users = [u \in OwnerIds |->
                [agentIds |-> AgentIds, fcmToken |-> TRUE,
                 notificationsEnabled |-> TRUE]]
  /\ \E auto \in {NoDoc, defaultPolicy("a1")},
        mine \in {NoDoc} \cup EvalPolicyDocs("a1") :
          policies = [d \in PolicyDocIds |->
                        IF d = <<"auto", "a1">> THEN auto
                        ELSE IF d = <<"byAgentId", "a1">> THEN mine
                        ELSE NoDoc]
  /\ policyOrder \in [AgentIds -> {"auto", "byAgentId"}]
  /\ policyOrder["a2"] = "auto"
  /\ policyOrder["a1"] = "byAgentId" => Cardinality(ActivePolicyDocs("a1")) = 2
  /\ approvals = [i \in ApprovalIds |-> NoDoc]
  /\ transactions \in EvalLedgers(MaxTx)
  /\ polls = [s \in PollSlots |-> NoPoll]
  /\ pendingApprovals = [i \in ApprovalIds |-> "absent"]
  /\ timeLeft = [i \in ApprovalIds |-> ""]
  /\ pushCalls = {}
  /\ res = NoRes
  /\ polledExpired = {}
  /\ webhook = NoWebhook

EvalRequestBodies ==
  ApprovalRequestBodies({2, 3}, {None, Some("p2")}, {None})
\* the requests come from a1, whose policy documents vary
EvalAuthHeaders == { Some(ApiKeyOf("a1")) }

NextEval ==
  \E auth \in EvalAuthHeaders, body \in EvalRequestBodies :
     RequestApproval(auth, body, "ok")

EvalSpec == InitEval /\ [][NextEval]_vars

\* ───────────────────────── Helius webhook ─────────────────────────────
\* one enhanced transaction of the payload.  nativeTo / tokenTo: the
\* receiver of the first native / token transfer, when there is one.
\* fault: where the processing of the event throws, if it does: "parse"
\* while the transfers are read, "match" in the agents query, "set" when
\* the record is handed to the batch (a field is undefined).  Timestamps
\* are instants in the model's minutes.
HeliusEvent(feePayer, nativeTo, tokenTo, failed, fault) ==
  [feePayer |-> feePayer, nativeTo |-> nativeTo,
   nativeLamports |-> LamportsPerUnit, tokenTo |-> tokenTo,
   fee |-> LamportsPerUnit, timestamp |-> 0,
   transactionError |-> failed, fault |-> fault]

\* "wx" is the address of no agent
HeliusEvents ==
  { HeliusEvent("w1", Some("w2"), None, FALSE, "none"),
    HeliusEvent("wx", None, Some("w2"), FALSE, "none"),
    HeliusEvent("wx", None, None, FALSE, "none"),
    HeliusEvent("w1", Some("wx"), None, TRUE, "none"),
    HeliusEvent("w1", Some("wx"), None, FALSE, "parse"),
    HeliusEvent("w1", Some("wx"), None, FALSE, "match"),
    HeliusEvent("w1", Some("wx"), None, FALSE, "set") }

lamportsToSol(x) == x \div LamportsPerUnit

\* to: the first native transfer's receiver, else the first token
\* transfer's, else ""
eventTo(e) ==
  IF e.nativeTo # None /\ e.nativeTo[1] # "" THEN e.nativeTo[1]
  ELSE IF e.tokenTo # None THEN e.tokenTo[1]
  ELSE ""

eventSolAmount(e) ==
  IF e.nativeTo # None THEN lamportsToSol(e.nativeLamports) ELSE 0

\* matchAgent looking at the fee payer only
matchAgent_fromOnly(from, to) ==
  LET found == { k \in DOMAIN AgentSeq :
                   /\ agents[AgentSeq[k]] # NoDoc
                   /\ agents[AgentSeq[k]].walletAddress = from }
  IN IF found = {} THEN NoAgent
     ELSE AgentSeq[CHOOSE k \in found : \A j \in found : k <= j]

\* agents where walletAddress in [from, to], limit(1): the first match in
\* document-id order, taken to be the order of AgentSeq
matchAgent(from, to) ==
  LET found == { k \in DOMAIN AgentSeq :
                   /\ agents[AgentSeq[k]] # NoDoc
                   /\ agents[AgentSeq[k]].walletAddress \in {from, to} }
  IN IF found = {} THEN NoAgent
     ELSE AgentSeq[CHOOSE k \in found : \A j \in found : k <= j]

\* the agent a record is stamped with
txAgent(e) == matchAgent(e.feePayer, eventTo(e))

\* txDoc with its agentId, as handed to batch.set; an unmatched record
\* has no agentId
txDoc(e) ==
  [agentId |-> txAgent(e),
   status |-> IF e.transactionError THEN "failed" ELSE "success",
   timestamp |-> e.timestamp,
   solAmount |-> eventSolAmount(e),
   fee |-> lamportsToSol(e.fee),
   from |-> e.feePayer, to |-> eventTo(e)]

\* what the loop has queued so far: records, lastSeenAt updates, and the
\* notification tally per agent
EmptyBatch ==
  [docs |-> <<>>, refreshed |-> {}, tally |-> [a \in AgentIds |-> 0]]

\* batch.set at a document id derived from the event, so that a record of
\* the same event already stored is replaced
commitBatch_upsert(docs, commitOk) ==
  IF ~commitOk THEN transactions
  ELSE LET fresh == SelectSeq(docs, LAMBDA d :
                      \A k \in DOMAIN transactions : transactions[k] # d)
       IN transactions \o fresh

\* the loop with the agents query failing only after the lastSeenAt update
\* and the tally were queued
RECURSIVE processEvents_queuedBeforeMatch(_, _)
processEvents_queuedBeforeMatch(events, acc) ==
  IF events = <<>> THEN acc
  ELSE LET e == Head(events)
           a == txAgent(e)
           after ==
             IF e.fault = "parse" THEN acc
             ELSE [docs |-> IF e.fault \in {"set", "match"} THEN acc.docs
                            ELSE Append(acc.docs, txDoc(e)),
                   refreshed |-> IF a # NoAgent THEN acc.refreshed \cup {a}
                                 ELSE acc.refreshed,
                   tally |-> IF a # NoAgent
                               THEN [acc.tally EXCEPT ![a] = @ + 1]
                               ELSE acc.tally]
       IN processEvents_queuedBeforeMatch(Tail(events), after)

\* the loop over the payload; an event that throws is logged and skipped,
\* keeping what it had queued before the throw
RECURSIVE processEvents(_, _)
processEvents(events, acc) ==
  IF events = <<>> THEN acc
  ELSE LET e == Head(events)
           a == txAgent(e)
           after ==
             IF e.fault \in {"parse", "match"} THEN acc
             ELSE [docs |-> IF e.fault = "set" THEN acc.docs
                            ELSE Append(acc.docs, txDoc(e)),
                   refreshed |-> IF a # NoAgent THEN acc.refreshed \cup {a}
                                 ELSE acc.refreshed,
                   tally |-> IF a # NoAgent
                               THEN [acc.tally EXCEPT ![a] = @ + 1]
                               ELSE acc.tally]
       IN processEvents(Tail(events), after)

\* a commit that applies the queued records one by one and stops at the
\* failure
commitBatch_partial(docs, commitOk) ==
  IF commitOk THEN transactions \o docs
  ELSE IF docs = <<>> THEN transactions
  ELSE Append(transactions, Head(docs))

\* batch.commit(): all queued writes or none
commitBatch(docs, commitOk) ==
  IF commitOk THEN transactions \o docs ELSE transactions

\* what can go wrong after the loop: the commit throws, or the commit
\* succeeds and the notification calls end in one of their outcomes
IngestOutcomes == {"commit_throws", "ok", "get_throws", "send_error",
                   "stale_token", "stale_token_cleanup_throws"}

\* awaiting the notification calls with Promise.all: one rejected call
\* rejects the whole
notifyOwners_awaitAll(owners, outcome) ==
  [threw |-> \E u \in owners : sendPushToOwner(u, outcome).threw,
   rejected |-> { u \in owners : sendPushToOwner(u, outcome).threw },
   users |-> [u \in DOMAIN users |->
                IF u \in owners THEN sendPushToOwner(u, outcome).users[u]
                ELSE users[u]]]

\* the notification calls under Promise.allSettled: the users collection
\* after them, the owners whose call was rejected, and whether the await
\* throws (it never does)
notifyOwners(owners, outcome) ==
  [threw |-> FALSE,
   rejected |-> { u \in owners : sendPushToOwner(u, outcome).threw },
   users |-> [u \in DOMAIN users |->
                IF u \in owners THEN sendPushToOwner(u, outcome).users[u]
                ELSE users[u]]]

\* onHeliusWebhook on an array payload.  A failed commit rejects the
\* handler's promise (there is no try around it): nothing is written and
\* the caller gets no 200.  The notifications run under
\* Promise.allSettled.  b is what the loop queued, sent what the
\* notification calls did.
Ingest(events, outcome) ==
  /\ \E b \in { processEvents(events, EmptyBatch) } :
     \E sent \in { notifyOwners({ agents[a].ownerId :
                                    a \in { x \in AgentIds : b.tally[x] > 0 } },
                                outcome) } :
       LET commitOk == outcome # "commit_throws"
           tallied == { a \in AgentIds : b.tally[a] > 0 }
       IN /\ transactions' = commitBatch(b.docs, commitOk)
          /\ IF commitOk
               THEN /\ agents' = [a \in AgentIds |->
                                    IF a \in b.refreshed
                                      THEN [agents[a] EXCEPT
                                              !.lastSeenAt = Some(now)]
                                      ELSE agents[a]]
                    /\ users' = sent.users
                    /\ webhook' = [ran |-> TRUE, events |-> events,
                                   refreshed |-> b.refreshed,
                                   committed |-> TRUE,
                                   notified |-> { <<a, b.tally[a]>> :
                                                    a \in tallied },
                                   rejected |-> sent.rejected]
                    /\ res' = IF sent.threw THEN ErrorRes("ingest", 500)
                              ELSE [ErrorRes("ingest", 200)
                                      EXCEPT !.processed = Len(events)]
               ELSE /\ UNCHANGED <<agents, users>>
                    /\ webhook' = [ran |-> TRUE, events |-> events,
                                   refreshed |-> b.refreshed,
                                   committed |-> FALSE,
                                   notified |-> {}, rejected |-> {}]
                    /\ res' = ErrorRes("ingest", 500)
          /\ UNCHANGED <<now, policies, policyOrder, approvals, polls,
                         pendingApprovals, timeLeft, pushCalls, polledExpired>>

\* IngestSpec: a1 is registered with wallet w1; a2 is not registered, or
\* registered with wallet w2 or with the same wallet w1; payloads of up to
\* MaxBatch events arrive, and a1 asks for approvals in between, which
\* makes the evaluator read the ledger.
InitIngest ==
  /\ now = 0
  /\ \E second \in {NoDoc, registeredAgent("a2", "w2", "u1"),
                     registeredAgent("a2", "w1", "u1")} :
        /\ agents = [a \in AgentIds |->
                       IF a = "a1" THEN registeredAgent("a1", "w1", "u1")
                       ELSE second]
        /\ users = [u \in OwnerIds |->
                      [agentIds |-> { a \in AgentIds : a = "a1" \/ second # NoDoc },
                       fcmToken |-> TRUE, notificationsEnabled |-> TRUE]]
        /\ policies = [d \in PolicyDocIds |->
                         IF d[1] = "auto" /\ (d[2] = "a1" \/ second # NoDoc)
                           THEN defaultPolicy(d[2]) ELSE NoDoc]
  /\ policyOrder = [a \in AgentIds |-> "auto"]
  /\ approvals = [i \in ApprovalIds |-> NoDoc]
  /\ transactions = <<>>
  /\ polls = [s \in PollSlots |-> NoPoll]
  /\ pendingApprovals = [i \in ApprovalIds |-> "absent"]
  /\ timeLeft = [i \in ApprovalIds |-> ""]
  /\ pushCalls = {}
  /\ res = NoRes
  /\ polledExpired = {}
  /\ webhook = NoWebhook

IngestRequestBodies == ApprovalRequestBodies({1}, {None}, {None})

\* the payloads: up to MaxBatch events in any order
Payloads == SeqsUpTo(HeliusEvents, MaxBatch)

\* the ledger has room for the records of a payload
LedgerHasRoom(events, room) == Len(transactions) + Len(events) <= room

NextIngest ==
  \/ \E events \in Payloads, outcome \in IngestOutcomes :
        LedgerHasRoom(events, MaxLedger) /\ Ingest(events, outcome)
  \/ \E body \in IngestRequestBodies :
        RequestApproval(Some(ApiKeyOf("a1")), body, "ok")

IngestSpec == InitIngest /\ [][NextIngest]_vars

\* ───────────────────────── mobile client: addTransaction ───────────────
\* records the client can hand to addTransaction
ClientTransactions ==
  { [agentId |-> "a1", status |-> s, timestamp |-> 0, solAmount |-> 0,
     fee |-> 0, from |-> "w1", to |-> "wx"] : s \in {"success", "failed"} }

\* setDoc(doc(db, 'transactions', tx.id), tx): the document with the id of
\* tx is created, or replaced whole when it exists.  A stored record's id
\* is its place in the ledger.
setTransactionDoc(id, tx) ==
  IF id \in DOMAIN transactions THEN [transactions EXCEPT ![id] = tx]
  ELSE Append(transactions, tx)

\* addTransaction(tx) of the client's firebase service, with tx.id = id
AddTransaction(id, tx) ==
  /\ id \in 1..(Len(transactions) + 1)
  /\ id <= MaxLedger
  /\ transactions' = setTransactionDoc(id, tx)
  /\ UNCHANGED <<now, agents, users, policies, policyOrder, approvals, polls,
                 pendingApprovals, timeLeft, pushCalls, res, polledExpired,
                 webhook>>

\* ReplaySpec: the sender of the webhook delivers payloads more than once.
\* The events are a matched one, one matched through its token transfer,
\* an unmatched one and one that throws; the ledger has room for a full
\* payload twice, and time passes between the deliveries.
ReplayEvents ==
  { e \in HeliusEvents :
      /\ e.fault \in {"none", "parse"}
      /\ ~e.transactionError }
ReplayPayloads == SeqsUpTo(ReplayEvents, MaxBatch)

NextReplay ==
  \/ \E events \in ReplayPayloads, outcome \in {"ok", "commit_throws"} :
        LedgerHasRoom(events, 2 * MaxBatch) /\ Ingest(events, outcome)
  \/ Tick

ReplaySpec == InitIngest /\ [][NextReplay]_vars

\* LedgerSpec: every writer of the transactions collection, the webhook and
\* the client's addTransaction, on the stores of IngestSpec
NextLedger ==
  \/ \E events \in Payloads, outcome \in IngestOutcomes :
        LedgerHasRoom(events, MaxLedger) /\ Ingest(events, outcome)
  \/ \E id \in 1..MaxLedger, tx \in ClientTransactions :
        AddTransaction(id, tx)

LedgerSpec == InitIngest /\ [][NextLedger]_vars

\* ───────────────────────── requests one after another ─────────────────
\* SerialSpec: a1 has one active policy document and any ledger, and sends
\* up to MaxSerial approval requests within one day.  Each handler run is
\* one step, so no two evaluations overlap.
InitSerial ==
  /\ now = MaxTime
  /\ agents = [a \in AgentIds |->
                 registeredAgent(a, IF a = "a1" THEN "w1" ELSE "w2", "u1")]
  /\ users = [u \in OwnerIds |->
                [agentIds |-> AgentIds, fcmToken |-> TRUE,
                 notificationsEnabled |-> TRUE]]
  /\ \E mine \in { p \in EvalPolicyDocs("a1") : p.isActive } :
        policies = [d \in PolicyDocIds |->
                      IF d = <<"byAgentId", "a1">> THEN mine ELSE NoDoc]
  /\ policyOrder = [a \in AgentIds |-> "auto"]
  /\ approvals = [i \in 1..MaxSerial |-> NoDoc]
  /\ transactions \in EvalLedgers(MaxTx)
  /\ polls = [s \in PollSlots |-> NoPoll]
  /\ pendingApprovals = [i \in ApprovalIds |-> "absent"]
  /\ timeLeft = [i \in ApprovalIds |-> ""]
  /\ pushCalls = {}
  /\ res = NoRes
  /\ polledExpired = {}
  /\ webhook = NoWebhook

SerialRequestBodies ==
  ApprovalRequestBodies({1, 2}, {None}, {None})

NextSerial ==
  \E body \in SerialRequestBodies :
     RequestApproval(Some(ApiKeyOf("a1")), body, "ok")

SerialSpec == InitSerial /\ [][NextSerial]_vars

\* ───────────────────────── what the verdict depends on ───────────────
\* VerdictSpec: a1 is active, paused or offline, has a policy document or
\* none and any ledger; its requests vary in every field of the body.
AgentStatuses == {"active", "paused", "offline"}

\* a request body with all its fields: the base body of a cost and a
\* target, and the bodies that differ from it in one other field
BaseBody(cost, target) ==
  [description |-> TRUE, txType |-> TRUE, estimatedSolCost |-> Some(cost),
   targetProgram |-> target, expiresInMinutes |-> None,
   descriptionText |-> "d1", txTypeValue |-> "transfer", amount |-> None,
   tokenSymbol |-> None, targetAddress |-> None]

BodyVariants(cost, target) ==
  LET base == BaseBody(cost, target)
  IN { base,
       [base EXCEPT !.descriptionText = "d2"],
       [base EXCEPT !.txTypeValue = "swap"],
       [base EXCEPT !.amount = Some(MaxAmount)],
       [base EXCEPT !.tokenSymbol = Some("USDC")],
       [base EXCEPT !.targetAddress = Some("w2")],
       [base EXCEPT !.expiresInMinutes = Some(1)] }

VerdictCosts == {2, 3}
VerdictTargets == {None, Some("p2")}
VerdictRequestBodies ==
  UNION { BodyVariants(c, t) : c \in VerdictCosts, t \in VerdictTargets }

InitVerdict ==
  /\ now = MaxTime
  /\ \E st \in AgentStatuses :
        agents = [a \in AgentIds |->
                    IF a = "a1"
                      THEN [registeredAgent("a1", "w1", "u1") EXCEPT !.status = st]
                      ELSE registeredAgent(a, "w2", "u1")]
  /\ users = [u \in OwnerIds |->
                [agentIds |-> AgentIds, fcmToken |-> TRUE,
                 notificationsEnabled |-> TRUE]]
  /\ \E mine \in {NoDoc} \cup EvalPolicyDocs("a1") :
        policies = [d \in PolicyDocIds |->
                      IF d = <<"byAgentId", "a1">> THEN mine ELSE NoDoc]
  /\ policyOrder = [a \in AgentIds |-> "auto"]
  /\ approvals = [i \in ApprovalIds |-> NoDoc]
  /\ transactions \in EvalLedgers(MaxTx)
  /\ polls = [s \in PollSlots |-> NoPoll]
  /\ pendingApprovals = [i \in ApprovalIds |-> "absent"]
  /\ timeLeft = [i \in ApprovalIds |-> ""]
  /\ pushCalls = {}
  /\ res = NoRes
  /\ polledExpired = {}
  /\ webhook = NoWebhook

NextVerdict ==
  \E body \in VerdictRequestBodies :
     RequestApproval(Some(ApiKeyOf("a1")), body, "ok")

VerdictSpec == InitVerdict /\ [][NextVerdict]_vars

\* ───────────────────────── faults and bad input ───────────────────────
\* FaultSpec: registration and approval requests with every body, valid or
\* not, every credential, and every outcome of the awaited calls.  The
\* handler does not check expiresInMinutes: any number is accepted.
FaultRequestBodies ==
  ApprovalRequestBodies({1, 2}, {None}, {None, Some(1), Some(0), Some(-1)})
    \cup InvalidRequestBodies

NextFault ==
  \/ \E body \in RegisterBodies, commitOk \in BOOLEAN :
        Register(body, commitOk, "auto")
  \/ \E auth \in AuthHeaders, body \in FaultRequestBodies, outcome \in Outcomes :
        RequestApproval(auth, body, outcome)

FaultSpec == Init /\ [][NextFault]_vars

\* ───────────────────────── access across agents ───────────────────────
\* AccessSpec: two agents, their requests, and polls and policy reads with
\* every credential, aimed at every approval id and agent id.
AccessRequestBodies == ApprovalRequestBodies({2}, {None}, {Some(1)})

NextAccess ==
  \/ \E body \in LifecycleRegisterBodies : Register(body, TRUE, "auto")
  \/ \E auth \in LifecycleAuthHeaders, body \in AccessRequestBodies :
        RequestApproval(auth, body, "ok")
  \/ \E slot \in PollSlots, auth \in AuthHeaders, id \in PollIds :
        PollRead(slot, auth, id)
  \/ \E slot \in PollSlots : PollFinish(slot)
  \/ \E auth \in AuthHeaders, a \in AgentIds : ReadPolicy(auth, a)
  \/ Tick

AccessSpec == Init /\ [][NextAccess]_vars

\* ═════════════════════════ properties ══════════════════════════════════
AllTargets == {None, Some("")} \cup { Some(p) : p \in Programs }
Amounts    == 0..MaxAmount

\* the four conditions of an automatic approval, stated on a policy, a
\* day's spend, an amount and an optional target; a target of "" counts as
\* absent, as it does in the request handler, which does not store it
WithinPolicy(policy, dailySpent, a, target) ==
  /\ a <= policy.perTxLimitSol
  /\ dailySpent + a <= policy.dailyLimitSol
  /\ \/ target = None
     \/ target = Some("")
     \/ policy.allowlistedPrograms = {}
     \/ target[1] \in policy.allowlistedPrograms
  /\ a <= policy.requireApprovalAbove

\* C1: an agent without an active policy is never auto-approved, whatever
\* the amount and the target, and every approval request created for it is
\* created pending (checked where no later step changes a status).
C1_FailClosed ==
  \A a \in AgentIds :
    ActivePolicyDocs(a) = {} =>
      /\ \A amt \in Amounts, tgt \in AllTargets :
           ~evaluateTransaction(a, amt, tgt).autoApproved
      /\ \A i \in ApprovalIds :
           (approvals[i] # NoDoc /\ approvals[i].agentId = a)
             => approvals[i].status = "pending"

\* a request of an agent whose only policy document is switched off has
\* been answered 201 and stored pending with the fail-safe reason
C1_Witness ==
  \E i \in ApprovalIds :
    /\ approvals[i] # NoDoc
    /\ approvals[i].agentId = "a1"
    /\ policies[<<"byAgentId", "a1">>] # NoDoc
    /\ ActivePolicyDocs("a1") = {}
    /\ approvals[i].policyEvaluation = "no_policy"
    /\ approvals[i].status = "pending"
    /\ res.code = 201 /\ res.approvalId = i

C6_CreatedStatus ==
  [][ \A i \in ApprovalIds :
        (approvals[i] = NoDoc /\ approvals'[i] # NoDoc) =>
          LET d == approvals'[i]
              policy == loadPolicy(d.agentId)
              auto == /\ policy # NoDoc
                      /\ WithinPolicy(policy, getDailySpending(d.agentId),
                                      d.estimatedSolCost, d.targetProgram)
          IN /\ d.createdAt = now
             /\ auto => (d.status = "approved" /\ d.respondedAt = Some(d.createdAt))
             /\ ~auto => (d.status = "pending" /\ d.respondedAt = None)
             /\ res'.code = 201 =>
                  /\ res'.approvalId = i
                  /\ res'.status = d.status
                  /\ res'.autoApproved = auto ]_vars

\* a request created after the clock has advanced was auto-approved and
\* answered with status approved
C6_Witness ==
  /\ res.op = "request" /\ res.code = 201 /\ res.status = "approved"
  /\ approvals[res.approvalId].status = "approved"
  /\ approvals[res.approvalId].createdAt > 0
  /\ approvals[res.approvalId].respondedAt = Some(approvals[res.approvalId].createdAt)

\* a step in which the poll in flight in `slot` runs its expiry check and
\* answers
PollAnswers(slot) == polls[slot] # NoPoll /\ polls'[slot] = NoPoll

\* a step in which the owner's approve or deny of request i goes through
HumanResponds(i) ==
  /\ pendingApprovals[i] = "pending"
  /\ pendingApprovals'[i] \in {"approved", "denied"}

\* C3: once the stored status of a request is approved, denied or expired,
\* no step of a poll or of a human response changes it.
C3_TerminalNeverChanges ==
  [][ \A i \in ApprovalIds :
        (approvals[i] # NoDoc /\ approvals[i].status \in Terminal)
          => approvals'[i].status = approvals[i].status ]_vars

\* C4: a human response to a request whose stored status is not pending
\* leaves the stored status and respondedAt as they were.
C4_ResponseToNonPendingRejected ==
  [][ \A i \in ApprovalIds :
        (HumanResponds(i) /\ approvals[i].status # "pending")
          => /\ approvals'[i].status = approvals[i].status
             /\ approvals'[i].respondedAt = approvals[i].respondedAt ]_vars

\* C5: a request stored pending whose expiry time has passed is not moved
\* to approved or denied by any step.
C5_OverduePendingNotAnswerable ==
  [][ \A i \in ApprovalIds :
        (/\ approvals[i] # NoDoc
         /\ approvals[i].status = "pending"
         /\ now > approvals[i].expiresAt)
          => approvals'[i].status \notin {"approved", "denied"} ]_vars

\* C7: a poll that read its request as pending writes expired and answers
\* expired exactly when the clock is strictly past expiresAt, and otherwise
\* answers pending and writes nothing; the status expired is written by no
\* step other than such a poll.
C7_LazyExpiry ==
  [][ /\ \A slot \in PollSlots :
           (PollAnswers(slot) /\ polls[slot].data.status = "pending") =>
             LET p == polls[slot] IN
             IF now > p.data.expiresAt
               THEN /\ res'.status = "expired"
                    /\ approvals'[p.approvalId].status = "expired"
               ELSE /\ res'.status = "pending"
                    /\ approvals' = approvals
      /\ \A i \in ApprovalIds :
           (/\ approvals'[i] # NoDoc
            /\ approvals'[i].status = "expired"
            /\ (approvals[i] = NoDoc \/ approvals[i].status # "expired"))
             => \E slot \in PollSlots :
                  /\ PollAnswers(slot)
                  /\ polls[slot].approvalId = i
                  /\ polls[slot].data.status = "pending"
                  /\ now > polls[slot].data.expiresAt ]_vars

\* the last answer is a poll's expired, and the request is stored expired
C7_Witness ==
  /\ res.op = "poll" /\ res.code = 200 /\ res.status = "expired"
  /\ approvals[res.approvalId].status = "expired"
  /\ approvals[res.approvalId].expiresAt < now

\* C8: a poll started after some poll of the same request has answered
\* expired answers expired.
C8_ExpiryMonotone ==
  [][ \A slot \in PollSlots :
        (PollAnswers(slot) /\ polls[slot].afterExpired)
          => res'.status = "expired" ]_vars

\* C9: a poll that read its request as approved or denied writes nothing and
\* answers the status and respondedAt it read, also past expiresAt.
C9_PollOfAnsweredIsPureRead ==
  [][ \A slot \in PollSlots :
        (PollAnswers(slot) /\ polls[slot].data.status \in {"approved", "denied"})
          => /\ approvals' = approvals
             /\ res'.status = polls[slot].data.status
             /\ res'.respondedAt = polls[slot].data.respondedAt ]_vars

\* the last answer is a poll's approved for a request whose expiry time has
\* passed and which is still stored approved
C9_Witness ==
  /\ res.op = "poll" /\ res.code = 200 /\ res.status = "approved"
  /\ approvals[res.approvalId].status = "approved"
  /\ res.respondedAt = approvals[res.approvalId].respondedAt
  /\ approvals[res.approvalId].expiresAt < now

\* C10: every agent has at most one policy document with isActive set.
C10_AtMostOneActivePolicy ==
  \A a \in AgentIds : Cardinality(ActivePolicyDocs(a)) <= 1

\* the four checks, each on its own
FailsPerTx(policy, a) == a > policy.perTxLimitSol
FailsDaily(policy, dailySpent, a) == dailySpent + a > policy.dailyLimitSol
FailsAllowlist(policy, target) ==
  /\ target # None /\ target # Some("")
  /\ policy.allowlistedPrograms # {}
  /\ target[1] \notin policy.allowlistedPrograms
FailsThreshold(policy, a) == a > policy.requireApprovalAbove

\* the reason the fixed order per-tx, daily, allowlist, threshold calls for
FirstViolated(policy, dailySpent, a, target) ==
  CASE FailsPerTx(policy, a) -> "per_tx"
    [] ~FailsPerTx(policy, a) /\ FailsDaily(policy, dailySpent, a) -> "daily"
    [] ~FailsPerTx(policy, a) /\ ~FailsDaily(policy, dailySpent, a)
         /\ FailsAllowlist(policy, target) -> "allowlist"
    [] ~FailsPerTx(policy, a) /\ ~FailsDaily(policy, dailySpent, a)
         /\ ~FailsAllowlist(policy, target) /\ FailsThreshold(policy, a) -> "threshold"
    [] OTHER -> "ok"

\* C11: under an active policy a refusal names the first violated check in
\* the order per-transaction limit, daily limit, allowlist, approval
\* threshold, for every amount and target, and the stored request carries
\* that reason.
C11_FirstViolatedReason ==
  \A a \in AgentIds :
    ActivePolicyDocs(a) # {} =>
      /\ \A amt \in Amounts, tgt \in AllTargets :
           LET e == evaluateTransaction(a, amt, tgt) IN
           ~e.autoApproved =>
              e.reason = FirstViolated(loadPolicy(a), getDailySpending(a), amt, tgt)
      /\ \A i \in ApprovalIds :
           (approvals[i] # NoDoc /\ approvals[i].agentId = a
              /\ approvals[i].status = "pending") =>
             approvals[i].policyEvaluation =
               FirstViolated(loadPolicy(a), getDailySpending(a),
                             approvals[i].estimatedSolCost,
                             approvals[i].targetProgram)

\* a stored request whose amount is above the per-tx limit, above the
\* threshold and over the daily limit carries the per-tx reason
C11_Witness ==
  \E i \in ApprovalIds :
    /\ approvals[i] # NoDoc
    /\ approvals[i].policyEvaluation = "per_tx"
    /\ LET a == approvals[i].agentId
           policy == loadPolicy(a)
           amt == approvals[i].estimatedSolCost
       IN /\ policy # NoDoc
          /\ FailsPerTx(policy, amt)
          /\ FailsThreshold(policy, amt)
          /\ FailsDaily(policy, getDailySpending(a), amt)
          /\ FailsAllowlist(policy, approvals[i].targetProgram)

\* the records that count towards agent a's spend of the current UTC day
CountedTx(a) ==
  { k \in DOMAIN transactions :
      /\ transactions[k].agentId = a
      /\ transactions[k].status = "success"
      /\ transactions[k].timestamp >= now - (now % MinutesPerDay) }

RECURSIVE SumOver(_)
SumOver(K) ==
  IF K = {} THEN 0
  ELSE LET k == CHOOSE x \in K : TRUE
       IN transactions[k].solAmount + transactions[k].fee + SumOver(K \ {k})

\* C12: the daily spend the evaluator uses for an agent is the sum of
\* amount + fee over exactly the stored records with this agent's id, status
\* success and a timestamp at or after the start of the current UTC day.
C12_DailySpendSum ==
  \A a \in AgentIds : getDailySpending(a) = SumOver(CountedTx(a))

\* the ledger holds a counted record stamped exactly at the start of the
\* day, and a request was refused on the daily limit on account of it
C12_Witness ==
  /\ \E k \in DOMAIN transactions :
       /\ k \in CountedTx("a1")
       /\ transactions[k].timestamp = now - (now % MinutesPerDay)
       /\ transactions[k].fee > 0
  /\ \E k \in DOMAIN transactions : k \notin CountedTx("a1")
  /\ \E i \in ApprovalIds :
       /\ approvals[i] # NoDoc
       /\ approvals[i].agentId = "a1"
       /\ approvals[i].policyEvaluation = "daily"

\* C13: a step in which an approval-creation call answers 500 leaves the
\* approvals collection as it was.
C13_NothingPersistedOn500 ==
  [][ (res'.op = "request" /\ res'.code = 500) => approvals' = approvals ]_vars

\* C14: an agent document exists exactly when its default active policy
\* exists and its id is in its owner's agent list, after every registration,
\* successful or failed.
C14_RegistrationAtomic ==
  \A a \in AgentIds :
    LET hasAgent  == agents[a] # NoDoc
        hasPolicy == /\ policies[<<"auto", a>>] # NoDoc
                     /\ policies[<<"auto", a>>].agentId = a
                     /\ policies[<<"auto", a>>].isActive
        listed    == \E u \in OwnerIds : a \in users[u].agentIds
    IN /\ hasAgent <=> hasPolicy
       /\ hasAgent <=> listed
       /\ hasAgent => a \in users[agents[a].ownerId].agentIds

\* a registration has just failed with 500 next to one that succeeded
C14_Witness ==
  /\ res.op = "register" /\ res.code = 500
  /\ agents["a1"] # NoDoc
  /\ agents["a2"] = NoDoc /\ policies[<<"auto", "a2">>] = NoDoc
  /\ users["u1"].agentIds = {"a1"}

\* the collections a handler can write
StoreUnchanged ==
  UNCHANGED <<agents, users, policies, policyOrder, approvals, transactions,
              pushCalls>>

\* registration bodies the validation has to refuse
InvalidRegisterBodies ==
  { b \in RegisterBodies :
      \/ ~b.name \/ b.walletAddress = None \/ b.ownerId = None
      \/ walletLength(b.walletAddress[1]) < 32
      \/ walletLength(b.walletAddress[1]) > 44
      \/ ~isBase58(b.walletAddress[1]) }

\* credentials of the registered agents
RegisteredKeys == { Some(ApiKeyOf(a)) : a \in { x \in AgentIds : agents[x] # NoDoc } }

\* C15: a registration with a missing name, wallet or owner or a wallet that
\* is not 32-44 base58 characters, and an approval request of a registered
\* agent with a missing description, txType or cost or a negative cost, can
\* only end in a 400 answer with nothing written and no alert, whatever the
\* awaited calls would have done (a failing policy read included, which
\* would show had the evaluator run).
C15_ValidationBeforeStateChange ==
  /\ \A body \in InvalidRegisterBodies, commitOk \in BOOLEAN :
       ~ENABLED ( /\ Register(body, commitOk, "auto")
                  /\ ~(res'.op = "register" /\ res'.code = 400 /\ StoreUnchanged) )
  /\ \A auth \in RegisteredKeys, body \in InvalidRequestBodies,
        outcome \in Outcomes :
       ~ENABLED ( /\ RequestApproval(auth, body, outcome)
                  /\ ~(res'.op = "request" /\ res'.code = 400 /\ StoreUnchanged) )

\* a registered agent's request has just been answered 400 and nothing is
\* stored or alerted
C15_Witness ==
  /\ res.op = "request" /\ res.code = 400
  /\ agents["a1"] # NoDoc
  /\ \A i \in ApprovalIds : approvals[i] = NoDoc
  /\ pushCalls = {}

\* C18: the owner alert has been attempted for exactly the requests created
\* pending, and only for requests that are stored (no later step changes a
\* status in this specification).
C18_AlertIffPending ==
  \A i \in ApprovalIds :
    i \in pushCalls <=> (approvals[i] # NoDoc /\ approvals[i].status = "pending")

\* a request was created pending, alerted and answered 201
C18_Witness ==
  /\ res.op = "request" /\ res.code = 201 /\ ~res.autoApproved
  /\ res.approvalId \in pushCalls
  /\ approvals[res.approvalId].status = "pending"

\* the agent a credential belongs to
AgentOfKey(auth) == authenticateAgent(auth).agentId

\* C16: a policy read or status poll by a registered agent aimed at another
\* agent's policy or approval can only be answered 403, without data and
\* without any write; every poll that goes on to the expiry check is the
\* owning agent's, and every successful answer carries the caller's own
\* policy or approval.
C16_OwnResourcesOnly ==
  /\ \A auth \in RegisteredKeys, target \in AgentIds :
       target # AgentOfKey(auth) =>
         ~ENABLED ( /\ ReadPolicy(auth, target)
                    /\ ~(/\ res'.code = 403 /\ res'.policy = NoDoc
                         /\ StoreUnchanged) )
  /\ \A auth \in RegisteredKeys, id \in ApprovalIds, slot \in PollSlots :
       (approvals[id] # NoDoc /\ approvals[id].agentId # AgentOfKey(auth)) =>
         ~ENABLED ( /\ PollRead(slot, auth, id)
                    /\ ~(/\ res'.code = 403 /\ res'.status = "none"
                         /\ res'.respondedAt = None
                         /\ StoreUnchanged /\ UNCHANGED polls) )
  /\ \A slot \in PollSlots :
       polls[slot] # NoPoll => polls[slot].data.agentId = polls[slot].agentId
  /\ (res.op = "policy" /\ res.code = 200) => res.policy.agentId = res.agentId
  /\ (res.op = "poll" /\ res.code = 200) =>
       approvals[res.approvalId].agentId = res.agentId

\* a poll has just been answered 403 while another agent's request is
\* pending past its expiry time and still stored pending
C16_Witness ==
  /\ res.op = "poll" /\ res.code = 403
  /\ \E i \in ApprovalIds :
       /\ approvals[i] # NoDoc
       /\ approvals[i].status = "pending"
       /\ approvals[i].expiresAt < now
       /\ \E a \in AgentIds : agents[a] # NoDoc /\ a # approvals[i].agentId

\* C17: what a registered agent is answered when it polls an approval of
\* another agent is what it would be answered if that approval did not
\* exist, and what it is answered when it reads another agent's policy does
\* not depend on the store.
C17_NoExistenceLeak ==
  /\ \A a \in AgentIds, i \in ApprovalIds :
       (agents[a] # NoDoc /\ approvals[i] # NoDoc /\ approvals[i].agentId # a) =>
         pollGate(approvals, a, i)
           = pollGate([approvals EXCEPT ![i] = NoDoc], a, i)
  /\ \A auth \in RegisteredKeys, target \in AgentIds :
       target # AgentOfKey(auth) =>
         ~ENABLED (ReadPolicy(auth, target) /\ res' # ErrorRes("policy", 403))


\* the wallets of the registered agents
RegisteredWallets ==
  { agents[a].walletAddress : a \in { x \in AgentIds : agents[x] # NoDoc } }

\* the events of the last payload that went through the loop without error
ProcessedEvents(w) == SelectSeq(w.events, LAMBDA e : e.fault = "none")

\* C19: a committed ingestion call adds exactly one record per event that
\* was processed without error, in the order of the payload and whether or
\* not the event matches an agent; the record carries an agent id iff its
\* from or its to address is the wallet of a registered agent, and then the
\* id is that of an agent with such a wallet.
C19_OneRecordPerEvent ==
  [][ (res'.op = "ingest" /\ webhook'.committed) =>
        LET good == ProcessedEvents(webhook')
        IN /\ Len(transactions') = Len(transactions) + Len(good)
           /\ \A k \in 1..Len(good) :
                LET r == transactions'[Len(transactions) + k]
                IN /\ r.from = good[k].feePayer
                   /\ (r.agentId # NoAgent)
                        <=> ({r.from, r.to} \cap RegisteredWallets # {})
                   /\ r.agentId # NoAgent =>
                        /\ agents[r.agentId] # NoDoc
                        /\ agents[r.agentId].walletAddress \in {r.from, r.to} ]_vars

\* a committed payload with a matched and an unmatched event, both stored
C19_Witness ==
  /\ webhook.ran /\ webhook.committed
  /\ Len(ProcessedEvents(webhook)) = 2
  /\ Len(transactions) = 2
  /\ transactions[1].agentId # NoAgent
  /\ transactions[2].agentId = NoAgent


\* C20: the writes of one ingestion call reach the store in one step.  A
\* step of the webhook either appends every record of the payload and
\* refreshes lastSeenAt of every matched agent, or, when the commit
\* fails, leaves the ledger and the agents as they were; no other step
\* writes the ledger, so no state that a reader (the evaluator's daily
\* spend query among them) can see holds a part of a payload.
C20_BatchAtomic ==
  [][ IF res'.op = "ingest"
        THEN \/ /\ webhook'.committed
                /\ Len(transactions')
                     = Len(transactions) + Len(ProcessedEvents(webhook'))
                /\ SubSeq(transactions', 1, Len(transactions)) = transactions
                /\ \A a \in AgentIds :
                     agents'[a] = IF a \in webhook'.refreshed
                                    THEN [agents[a] EXCEPT !.lastSeenAt = Some(now)]
                                    ELSE agents[a]
             \/ /\ ~webhook'.committed
                /\ transactions' = transactions
                /\ agents' = agents
        ELSE transactions' = transactions ]_vars

\* the evaluator has read the ledger after a payload of two records was
\* committed
C20_Witness ==
  /\ res.op = "request" /\ res.code \in {200, 201}
  /\ webhook.ran /\ webhook.committed
  /\ Len(ProcessedEvents(webhook)) = 2
  /\ Len(transactions) = 2


\* the agents stamped on the records r of a sequence
StampedAgents(docs) ==
  { docs[k].agentId : k \in DOMAIN docs } \ {NoAgent}

\* how many records of a sequence are stamped with a
StampedCount(docs, a) ==
  Cardinality({ k \in DOMAIN docs : docs[k].agentId = a })

\* C21: an event that throws while it is normalized or matched is left
\* out alone.  In a committed payload whose other events are processed
\* without error, the events around the failed ones each get their record,
\* in order, and lastSeenAt and the notification tally come from those
\* records only: the failed events add no record, no refresh and no count.
C21_FailedEventExcludedAlone ==
  [][ ( /\ res'.op = "ingest" /\ webhook'.committed
        /\ \A k \in DOMAIN webhook'.events :
              webhook'.events[k].fault \in {"none", "parse", "match"} ) =>
        LET good == ProcessedEvents(webhook')
            added == SubSeq(transactions', Len(transactions) + 1,
                            Len(transactions'))
        IN /\ Len(added) = Len(good)
           /\ \A k \in DOMAIN good :
                /\ added[k].from = good[k].feePayer
                /\ added[k].status = IF good[k].transactionError
                                       THEN "failed" ELSE "success"
           /\ webhook'.refreshed = StampedAgents(added)
           /\ \A a \in AgentIds :
                agents'[a] # agents[a] => a \in StampedAgents(added)
           /\ webhook'.notified
                = { <<a, StampedCount(added, a)>> : a \in StampedAgents(added) }
      ]_vars

\* a committed payload whose first event failed in the agents query or in
\* the parsing and whose second event was stored; the failed event's fee
\* payer is a1's wallet, and a1 was neither refreshed nor counted
C21_Witness ==
  /\ webhook.ran /\ webhook.committed
  /\ Len(webhook.events) = 2
  /\ webhook.events[1].fault \in {"parse", "match"}
  /\ webhook.events[1].feePayer = agents["a1"].walletAddress
  /\ webhook.events[2].fault = "none"
  /\ Len(transactions) = 1
  /\ transactions[1].from = webhook.events[2].feePayer
  /\ agents["a1"].lastSeenAt = None
  /\ webhook.notified = {}


\* C22: once the batch has committed the webhook answers 200, with the
\* number of events received, whatever events were skipped and whatever
\* the notification calls did.
C22_Always200AfterCommit ==
  [][ (res'.op = "ingest" /\ webhook'.committed) =>
        /\ res'.code = 200
        /\ res'.processed = Len(webhook'.events) ]_vars

\* a committed payload with a skipped event and a stored one whose owner's
\* notification call was rejected, answered 200
C22_Witness ==
  /\ res.op = "ingest" /\ res.code = 200
  /\ webhook.committed
  /\ \E k \in DOMAIN webhook.events : webhook.events[k].fault # "none"
  /\ webhook.notified # {}
  /\ webhook.rejected # {}


\* C23: after the commit of a payload one notification goes out per agent
\* stamped on a record of the payload, carrying the number of the
\* payload's records stamped with that agent; no other agent is notified.
C23_OneNotificationPerAgent ==
  [][ (res'.op = "ingest" /\ webhook'.committed) =>
        LET added == SubSeq(transactions', Len(transactions) + 1,
                            Len(transactions'))
        IN webhook'.notified
             = { <<a, StampedCount(added, a)>> : a \in StampedAgents(added) }
    ]_vars


\* C24: the ledger only grows.  No step changes or removes a stored
\* record, and with the clock standing no agent's daily spend goes down.
C24_LedgerAppendOnly ==
  [][ /\ Len(transactions') >= Len(transactions)
      /\ SubSeq(transactions', 1, Len(transactions)) = transactions
      /\ now' = now =>
            \A a \in AgentIds : getDailySpending(a)' >= getDailySpending(a)
    ]_vars


\* the last n records of the ledger
LastRecords(ledger, n) == SubSeq(ledger, Len(ledger) - n + 1, Len(ledger))

\* C25: a payload delivered again is stored again.  When a committed call
\* is followed, at any later time, by a committed call with the same
\* payload (a step of the webhook leaves the clock alone), the second adds
\* the same records once more, one per processed event, so every agent has
\* twice the records of the payload; the agents with a record are those
\* that had one after the first call.
C25_ReplayIsAdditive ==
  [][ ( /\ webhook.ran /\ webhook.committed
        /\ res'.op = "ingest" /\ webhook'.committed
        /\ now' = now
        /\ webhook'.events = webhook.events ) =>
        LET n == Len(ProcessedEvents(webhook))
        IN /\ Len(transactions') = Len(transactions) + n
           /\ LastRecords(transactions', n) = LastRecords(transactions, n)
           /\ \A a \in AgentIds :
                StampedCount(LastRecords(transactions', 2 * n), a)
                  = 2 * StampedCount(LastRecords(transactions, n), a)
           /\ StampedAgents(transactions') = StampedAgents(transactions)
    ]_vars

\* a payload of two stored events, one of them matched, was committed
\* twice in a row: the ledger holds its two records twice
C25_Witness ==
  /\ webhook.ran /\ webhook.committed
  /\ Len(ProcessedEvents(webhook)) = 2
  /\ Len(transactions) = 4
  /\ LastRecords(transactions, 2) = SubSeq(transactions, 1, 2)
  /\ StampedAgents(transactions) # {}
  /\ now > 0


\* the stored requests of a that were approved at creation today
AutoApprovedToday(a) ==
  { i \in DOMAIN approvals :
      /\ approvals[i] # NoDoc
      /\ approvals[i].agentId = a
      /\ approvals[i].status = "approved"
      /\ approvals[i].respondedAt = Some(approvals[i].createdAt)
      /\ approvals[i].createdAt >= startOfDay(now) }

RECURSIVE CostOver(_)
CostOver(I) ==
  IF I = {} THEN 0
  ELSE LET i == CHOOSE x \in I : TRUE
       IN approvals[i].estimatedSolCost + CostOver(I \ {i})

\* C26: with the requests of an agent evaluated one after another, what
\* was approved automatically for it today plus its ledger spend of today
\* stays within the daily limit of its policy.
C26_SerialWithinDailyLimit ==
  LET p == loadPolicy("a1")
  IN (p # NoDoc /\ AutoApprovedToday("a1") # {}) =>
       CostOver(AutoApprovedToday("a1")) + getDailySpending("a1")
         <= p.dailyLimitSol


\* C27: polls of one overdue request may interleave in any way.  A poll
\* that read the request as pending, or as expired by another poll, and
\* reaches its expiry check after the expiry time answers expired, and the
\* stored status is expired when it has answered.
C27_ConcurrentExpiry ==
  [][ \A s \in PollSlots :
        ( /\ polls[s] # NoPoll /\ polls'[s] = NoPoll
          /\ polls[s].data.status \in {"pending", "expired"}
          /\ polls[s].data.expiresAt < now ) =>
            /\ res'.op = "poll" /\ res'.code = 200
            /\ res'.status = "expired"
            /\ approvals'[polls[s].approvalId].status = "expired" ]_vars

\* two polls read the overdue request as pending; one has answered expired
\* and written, the other is still to run its check on its older read
C27_Witness ==
  \E s \in PollSlots :
    /\ polls[s] # NoPoll
    /\ polls[s].data.status = "pending"
    /\ polls[s].data.expiresAt < now
    /\ approvals[polls[s].approvalId].status = "expired"
    /\ res.op = "poll" /\ res.status = "expired"


\* C28: a stored request has a respondedAt exactly when its status is
\* approved or denied; a pending or an expired request has none.
C28_RespondedAtIffAnswered ==
  \A i \in DOMAIN approvals :
    approvals[i] # NoDoc =>
      ( approvals[i].respondedAt # None
          <=> approvals[i].status \in {"approved", "denied"} )


\* the TTL a request body asks for, in minutes
RequestedTtl(body) ==
  IF body.expiresInMinutes = None THEN DefaultExpiresInMinutes
  ELSE body.expiresInMinutes[1]

\* C30: every request is stored with expiresAt = createdAt + TTL minutes,
\* the TTL being 15 when the body gives none, and every stored request
\* expires strictly after it was created, so that none is overdue at its
\* creation.
C30_ExpiresAfterCreation ==
  /\ \A auth \in AuthHeaders, body \in FaultRequestBodies :
       ~ ENABLED ( /\ RequestApproval(auth, body, "ok")
                   /\ \E i \in DOMAIN approvals :
                        /\ approvals[i] = NoDoc
                        /\ approvals'[i] # NoDoc
                        /\ approvals'[i].expiresAt
                             # approvals'[i].createdAt + RequestedTtl(body) )
  /\ \A i \in DOMAIN approvals :
       approvals[i] # NoDoc => approvals[i].expiresAt > approvals[i].createdAt


\* C29: the verdict of a request is a matter of the policy, the day's
\* spend, the cost and the target program alone.  For a1 in any lifecycle
\* status, a request that differs from the base body of its cost and target
\* in its description, txType, amount, tokenSymbol, targetAddress or TTL
\* can only be answered with the verdict of the base body, and that verdict
\* is the same for an active, a paused and an offline agent.
C29_VerdictIgnoresOtherFields ==
  \A c \in VerdictCosts, t \in VerdictTargets :
    LET verdict == requestVerdict([id |-> "a1", status |-> "active"],
                                  BaseBody(c, t))
    IN /\ \A st \in AgentStatuses :
            requestVerdict([id |-> "a1", status |-> st], BaseBody(c, t))
              = verdict
       /\ \A body \in BodyVariants(c, t) :
            ~ ENABLED ( /\ RequestApproval(Some(ApiKeyOf("a1")), body, "ok")
                        /\ ~ ( /\ res'.code = 201
                               /\ res'.autoApproved = verdict.autoApproved
                               /\ res'.reason = verdict.reason ) )

\* a paused agent's request that gives a TTL of its own was approved
\* automatically
C29_Witness ==
  /\ agents["a1"].status = "paused"
  /\ res.op = "request" /\ res.code = 201 /\ res.autoApproved
  /\ \E i \in DOMAIN approvals :
       /\ approvals[i] # NoDoc
       /\ approvals[i].status = "approved"
       /\ approvals[i].expiresAt = approvals[i].createdAt + 1

====
